---- MODULE Spec2Model ----
(***************************************************************************)
(* The weekly activity pipeline: scripts/fetch.py (repository resolution   *)
(* and metric collection), scripts/aggregate.py (daily summary) and        *)
(* scripts/update_index.py (index of the published summaries).             *)
(*                                                                         *)
(* Python strings that are split, matched, sorted or sliced are modelled   *)
(* as sequences of one-character strings; opaque strings (branch names,    *)
(* commit ids, author names, metric names) are TLA+ strings.               *)
(***************************************************************************)
EXTENDS Integers, Sequences, FiniteSets, TLC

VARIABLES
    config,        \* the loaded config.yaml (a dict)
    now,           \* the UTC clock, in half days since the first Calendar day
    pc,            \* position of the running script (between runs: the last one run)
    orgs_todo,     \* organizations main() has still to enumerate
    users_todo,    \* users main() has still to enumerate
    all_repos,     \* main(): the set all_repos
    queue,         \* main(): what is left of sorted(all_repos)
    results,       \* main(): the list results
    remote,        \* the remote API's responses to the last fetch_repo_data call
    net_requests,  \* number of HTTP requests issued by the run so far
    enumerated,    \* history: identifiers returned by fetch_org_repos/fetch_user_repos
    processed,     \* history: identifiers handed to fetch_repo_data, in order
    failed,        \* history: identifiers whose base-metadata fetch raised HTTPError
    raw_json,      \* data_raw/raw.json (NoFile when it was never written)
    returned,      \* history: the summaries aggregate() has returned
    files,         \* docs/data: the files of the archive directory
    index_json     \* docs/data/index.json's content (NoFile when never written)

vars == <<config, now, pc, orgs_todo, users_todo, all_repos, queue, results, remote,
          net_requests, enumerated, processed, failed, raw_json, returned, files,
          index_json>>

\* a file that does not exist
NoFile == [absent |-> TRUE]

\* Python's None / JSON's null where an opaque string may stand
None == "None"

\* JSON's null where a string of characters may stand
JsonNull == <<"null">>

----------------------------------------------------------------------------
(* Python built-ins on strings, lists and dicts                            *)

\* ord(c) for the characters the model's strings are made of
Ord(c) ==
    CASE c = "*" -> 42 [] c = "-" -> 45 [] c = "." -> 46 [] c = "/" -> 47
      [] c = "0" -> 48 [] c = "1" -> 49 [] c = "2" -> 50 [] c = "3" -> 51
      [] c = "4" -> 52 [] c = "5" -> 53 [] c = "6" -> 54 [] c = "7" -> 55
      [] c = "8" -> 56 [] c = "9" -> 57 [] c = ":" -> 58 [] c = "?" -> 63
      [] c = "T" -> 84 [] c = "Z" -> 90
      [] c = "a" -> 97 [] c = "b" -> 98 [] c = "d" -> 100 [] c = "e" -> 101
      [] c = "i" -> 105 [] c = "n" -> 110 [] c = "r" -> 114 [] c = "t" -> 116
      [] c = "x" -> 120 [] c = "y" -> 121 [] c = "z" -> 122

\* str.__lt__: code-point lexicographic order
RECURSIVE StrLess(_, _)
StrLess(s, t) ==
    IF t = <<>> THEN FALSE
    ELSE IF s = <<>> THEN TRUE
    ELSE IF Head(s) # Head(t) THEN Ord(Head(s)) < Ord(Head(t))
    ELSE StrLess(Tail(s), Tail(t))

\* sorted(S) of a set of strings
RECURSIVE sorted(_)
sorted(S) ==
    IF S = {} THEN <<>>
    ELSE LET m == CHOOSE x \in S : \A y \in S \ {x} : StrLess(x, y)
         IN  <<m>> \o sorted(S \ {m})

\* sorted(L, reverse=True) of a list of distinct strings, S the set of its elements
RECURSIVE sorted_reverse(_)
sorted_reverse(S) ==
    IF S = {} THEN <<>>
    ELSE LET m == CHOOSE x \in S : \A y \in S \ {x} : StrLess(y, x)
         IN  <<m>> \o sorted_reverse(S \ {m})

\* c.isdigit() of one ASCII character
isdigit(c) == c \in {"0", "1", "2", "3", "4", "5", "6", "7", "8", "9"}

\* s.split(sep) for a one-character separator
RECURSIVE split(_, _)
split(s, sep) ==
    IF \A i \in 1..Len(s) : s[i] # sep THEN <<s>>
    ELSE LET i == CHOOSE k \in 1..Len(s) : s[k] = sep /\ \A j \in 1..(k - 1) : s[j] # sep
         IN  <<SubSeq(s, 1, i - 1)>> \o split(SubSeq(s, i + 1, Len(s)), sep)

\* fnmatch.fnmatch(name, pat) on POSIX: * any run of characters, ? any one character
RECURSIVE fnmatch(_, _)
fnmatch(name, pat) ==
    IF pat = <<>> THEN name = <<>>
    ELSE IF Head(pat) = "*"
         THEN fnmatch(name, Tail(pat)) \/ (name # <<>> /\ fnmatch(Tail(name), pat))
    ELSE IF name = <<>> THEN FALSE
    ELSE (Head(pat) = "?" \/ Head(pat) = Head(name)) /\ fnmatch(Tail(name), Tail(pat))

\* d.get(k, default)
Get(d, k, default) == IF k \in DOMAIN d THEN d[k] ELSE default

\* set(L) of a list
Range(L) == {L[i] : i \in 1..Len(L)}

\* sum(L) of a list of numbers
RECURSIVE sum(_)
sum(L) == IF L = <<>> THEN 0 ELSE Head(L) + sum(Tail(L))

\* every list that holds the elements of the set S once each
Orderings(S) ==
    {L \in [1..Cardinality(S) -> S] : \A i, j \in 1..Cardinality(S) : L[i] = L[j] => i = j}

----------------------------------------------------------------------------
(* The clock and datetime formatting                                       *)

DATE_0228 == <<"2","0","2","4","-","0","2","-","2","8">>
DATE_0229 == <<"2","0","2","4","-","0","2","-","2","9">>
DATE_0301 == <<"2","0","2","4","-","0","3","-","0","1">>
DATE_0302 == <<"2","0","2","4","-","0","3","-","0","2">>
DATE_0303 == <<"2","0","2","4","-","0","3","-","0","3">>
DATE_0304 == <<"2","0","2","4","-","0","3","-","0","4">>
DATE_0305 == <<"2","0","2","4","-","0","3","-","0","5">>

\* the calendar days the clock can show, starting with the epoch day
Calendar == <<DATE_0228, DATE_0229, DATE_0301, DATE_0302, DATE_0303, DATE_0304,
              DATE_0305>>

\* datetime.strftime("%Y-%m-%d") of an instant
strftime_date(t) == Calendar[(t \div 2) + 1]

\* datetime.isoformat() + "Z" of an instant (whole seconds)
isoformat_z(t) ==
    strftime_date(t)
      \o (IF t % 2 = 0 THEN <<"T","0","0",":","0","0",":","0","0">>
                       ELSE <<"T","1","2",":","0","0",":","0","0">>)
      \o <<"Z">>
----------------------------------------------------------------------------
(* scripts/fetch.py: fetch_repo_data                                       *)

\* days of activity looked at when the config sets no activity_window
DefaultActivityWindow == 7

\* how many of the listed branches are looked at for the most recent one
BranchScanLimit == 10

EmptyDict == [k \in {} |-> None]

\* "x in config.get('metrics', [])"
metric_enabled(cfg, m) == m \in Range(Get(cfg, "metrics", <<>>))

\* since: now minus the activity window (instants are half days)
since_of(cfg, t) == t - 2 * Get(cfg, "activity_window", DefaultActivityWindow)

\* branches_to_check before the search for the most recent branch:
\* the default branch, and "dev" when the branch listing shows it
branches_named(rm) ==
    {rm.base.body.default_branch}
      \cup (IF rm.branches.status = 200
               /\ "dev" \in {b.name : b \in Range(rm.branches.body)}
            THEN {"dev"} ELSE {})

\* the branches of branches[:10] whose latest commit is looked up
branches_probed(rm) ==
    IF rm.branches.status # 200 THEN <<>>
    ELSE SelectSeq(SubSeq(rm.branches.body, 1,
                          IF Len(rm.branches.body) < BranchScanLimit
                          THEN Len(rm.branches.body) ELSE BranchScanLimit),
                   LAMBDA b : b.name \notin branches_named(rm) /\ b.commit_url)

\* the loop over branches[:10]: (most_recent, most_recent_date) after the branches
\* bs, from best; <<>> stands for (None, None)
RECURSIVE most_recent_of(_, _)
most_recent_of(bs, best) ==
    IF bs = <<>> THEN best
    ELSE LET b == Head(bs)
             better == /\ b.tip.status = 200
                       /\ "date" \in DOMAIN b.tip
                       /\ (best = <<>> \/ b.tip.date > best[1].date)
         IN  most_recent_of(Tail(bs),
                            IF better THEN <<[name |-> b.name, date |-> b.tip.date]>>
                            ELSE best)

\* branches_to_check as the commit loop iterates it
branches_to_check(rm) ==
    LET best == most_recent_of(branches_probed(rm), <<>>)
    IN  branches_named(rm) \cup (IF best = <<>> THEN {} ELSE {best[1].name})

\* append_unseen without the seen_shas test: every commit of every branch is kept
append_every(acc, commits) == acc \o commits

\* the inner loop: all_commits extended by the commits of one response,
\* skipping every sha already seen
RECURSIVE append_unseen(_, _)
append_unseen(acc, commits) ==
    IF commits = <<>> THEN acc
    ELSE append_unseen(IF Head(commits).sha \in {c.sha : c \in Range(acc)}
                       THEN acc ELSE Append(acc, Head(commits)),
                       Tail(commits))

\* the outer loop: all_commits after the branches of order, from acc
RECURSIVE all_commits_of(_, _, _)
all_commits_of(rm, order, acc) ==
    IF order = <<>> THEN acc
    ELSE all_commits_of(rm, Tail(order),
                        IF rm.commits[Head(order)].status = 200
                        THEN append_unseen(acc, rm.commits[Head(order)].body)
                        ELSE acc)

\* the set the commit_authors list is built from
commit_author_set(all_commits) ==
    {c.author : c \in {x \in Range(all_commits) : "author" \in DOMAIN x}}

\* the fields the commits category adds to data
commits_fields(rm, branch_order, author_order) ==
    LET all_commits == all_commits_of(rm, branch_order, <<>>)
    IN  [commits_this_week |-> Len(all_commits),
         commit_authors |-> author_order]

\* the fields the pull_requests category adds to data
pull_requests_fields(rm, since) ==
    IF rm.pulls.status # 200 THEN EmptyDict
    ELSE LET prs == rm.pulls.body
             recent_prs == SelectSeq(prs, LAMBDA pr : pr.created_at >= since)
         IN  [prs_opened_this_week |->
                  Len(SelectSeq(recent_prs, LAMBDA pr : pr.created_at >= since)),
              prs_merged_this_week |->
                  Len(SelectSeq(recent_prs,
                                LAMBDA pr : "merged_at" \in DOMAIN pr
                                            /\ pr.merged_at >= since)),
              prs_open |-> Len(SelectSeq(prs, LAMBDA pr : pr.state = "open"))]

\* the fields the issues category adds to data
issues_fields(rm, since) ==
    IF rm.issues.status # 200 THEN EmptyDict
    ELSE LET issues == SelectSeq(rm.issues.body, LAMBDA i : ~i.pull_request)
         IN  [issues_opened_this_week |->
                  Len(SelectSeq(issues, LAMBDA i : i.created_at >= since)),
              issues_closed_this_week |->
                  Len(SelectSeq(issues,
                                LAMBDA i : "closed_at" \in DOMAIN i
                                           /\ i.closed_at >= since)),
              issues_open |-> Len(SelectSeq(issues, LAMBDA i : i.state = "open"))]

\* the fields the contributors category adds to data
contributors_fields(rm) ==
    IF rm.contributors.status # 200 THEN EmptyDict
    ELSE [total_contributors |-> Len(rm.contributors.body)]

\* the HTTP requests one call issues
requests_of(rm, cfg) ==
    1 + (IF metric_enabled(cfg, "commits")
         THEN 1 + Len(branches_probed(rm)) + Cardinality(branches_to_check(rm))
         ELSE 0)
      + (IF metric_enabled(cfg, "pull_requests") THEN 1 ELSE 0)
      + (IF metric_enabled(cfg, "issues") THEN 1 ELSE 0)
      + (IF metric_enabled(cfg, "contributors") THEN 1 ELSE 0)

\* fetch_repo_data(owner, repo, config) when the API answers the requests under
\* https://api.github.com/repos/{owner}/{repo} with rm at time t; branch_order
\* and author_order are the iteration orders of the sets branches_to_check and
\* set(authors).  raise_for_status() raises for every 4xx and 5xx status.
fetch_repo_data(rm, cfg, t, branch_order, author_order) ==
    IF rm.base.status >= 400
    THEN [raised |-> TRUE, requests |-> 1]
    ELSE LET repo_info == rm.base.body
             since == since_of(cfg, t)
             data == [name |-> repo_info.full_name,
                      description |-> Get(repo_info, "description", None),
                      url |-> repo_info.html_url,
                      homepage |-> IF Get(repo_info, "homepage", None) = ""
                                   THEN None ELSE Get(repo_info, "homepage", None),
                      stars |-> repo_info.stargazers_count,
                      forks |-> repo_info.forks_count,
                      open_issues |-> repo_info.open_issues_count,
                      default_branch |-> repo_info.default_branch,
                      updated_at |-> repo_info.updated_at]
         IN  [raised |-> FALSE,
              requests |-> requests_of(rm, cfg),
              data |-> data
                @@ (IF metric_enabled(cfg, "commits")
                    THEN commits_fields(rm, branch_order, author_order) ELSE EmptyDict)
                @@ (IF metric_enabled(cfg, "pull_requests")
                    THEN pull_requests_fields(rm, since) ELSE EmptyDict)
                @@ (IF metric_enabled(cfg, "issues")
                    THEN issues_fields(rm, since) ELSE EmptyDict)
                @@ (IF metric_enabled(cfg, "contributors")
                    THEN contributors_fields(rm) ELSE EmptyDict)]

\* the iteration orders fetch_repo_data can meet
branch_orders(rm, cfg) ==
    IF rm.base.status >= 400 \/ ~metric_enabled(cfg, "commits") THEN {<<>>}
    ELSE Orderings(branches_to_check(rm))

author_orders(rm, cfg, branch_order) ==
    IF rm.base.status >= 400 \/ ~metric_enabled(cfg, "commits") THEN {<<>>}
    ELSE Orderings(commit_author_set(all_commits_of(rm, branch_order, <<>>)))
----------------------------------------------------------------------------
(* scripts/fetch.py: enumeration and main                                  *)

\* fetch_org_repos(org) when the API lists pages (the non-empty pages, in order)
\* and answers request number fail_at with an error status (0: none fails)
fetch_org_repos(pages, fail_at) ==
    IF fail_at \in 1..(Len(pages) + 1)
    THEN [raised |-> TRUE, requests |-> fail_at]
    ELSE [raised |-> FALSE,
          requests |-> Len(pages) + 1,
          repos |-> UNION {{r.full_name : r \in {x \in Range(pages[i]) : ~x.archived}}
                           : i \in 1..Len(pages)}]

\* fetch_user_repos(user), as fetch_org_repos
fetch_user_repos(pages, fail_at) ==
    IF fail_at \in 1..(Len(pages) + 1)
    THEN [raised |-> TRUE, requests |-> fail_at]
    ELSE [raised |-> FALSE,
          requests |-> Len(pages) + 1,
          repos |-> UNION {{r.full_name : r \in {x \in Range(pages[i]) : ~x.archived}}
                           : i \in 1..Len(pages)}]

matches_pattern(repo_name, pattern) == fnmatch(repo_name, pattern)

\* main(): all_repos after the whitelist is added and the blacklist applied
resolve(repos, cfg) ==
    LET blacklist == Get(cfg, "blacklist", <<>>)
        whitelist == Range(Get(cfg, "whitelist", <<>>))
    IN  {repo \in repos \cup whitelist :
            ~\E i \in 1..Len(blacklist) : matches_pattern(repo, blacklist[i])}

\* "owner, repo = repo_full_name.split('/')" raises ValueError
unpack_fails(repo_full_name) == Len(split(repo_full_name, "/")) # 2

\* the dict main() dumps to raw.json
snapshot(t, res) == [fetched_at |-> isoformat_z(t), repositories |-> res]
----------------------------------------------------------------------------
(* The configurations and the remote API states the runs are checked on    *)

A_X == <<"a", "/", "x">>
A_Y == <<"a", "/", "y">>
B_Z == <<"b", "/", "z">>
\* identifiers that do not hold exactly one "/"
A_X_Y == <<"a", "/", "x", "/", "y">>
Z_BARE == <<"z">>

PAT_A_ALL == <<"a", "/", "*">>
PAT_ANY_Z == <<"*", "/", "z">>
PAT_A_ONE == <<"a", "/", "?">>

Configs ==
    {[organizations |-> o, users |-> u, repositories |-> r, whitelist |-> w,
      blacklist |-> b, metrics |-> m] :
        o \in {<<>>, <<"a">>},
        u \in {<<>>, <<"b">>},
        r \in {<<>>, <<A_Y>>},
        w \in {<<>>, <<A_X>>, <<A_Y>>, <<B_Z, Z_BARE>>, <<A_X_Y, B_Z>>},
        b \in {<<>>, <<PAT_A_ALL>>, <<PAT_ANY_Z, PAT_A_ONE>>},
        m \in {<<>>, <<"commits", "pull_requests", "issues", "contributors">>}}
      \cup {EmptyDict}

Listed(full_name, archived) == [full_name |-> full_name, archived |-> archived]

\* what the API can list for an organization or a user: the non-empty pages
Listings(account) ==
    IF account = "a"
    THEN {<<>>,
          << <<Listed(A_X, FALSE)>> >>,
          << <<Listed(A_X, FALSE), Listed(A_Y, TRUE)>> >>,
          << <<Listed(A_Y, FALSE)>>, <<Listed(A_X, FALSE)>> >>}
    ELSE {<<>>, << <<Listed(B_Z, FALSE)>> >>}

Response(status, body) == [status |-> status, body |-> body]

RepoInfo(full_name, stars, description) ==
    [full_name |-> full_name, html_url |-> [html |-> full_name],
     description |-> description, homepage |-> "",
     stargazers_count |-> stars, forks_count |-> 0, open_issues_count |-> 0,
     default_branch |-> "main", updated_at |-> 0]

Branch(name, has_url, tip) == [name |-> name, commit_url |-> has_url, tip |-> tip]

COMMIT_A == [sha |-> "A", author |-> "Alice"]
COMMIT_B == [sha |-> "B", author |-> "Bob"]
COMMIT_C == [sha |-> "C", author |-> "Bob"]
COMMIT_D == [sha |-> "D"]

BranchNames == {"main", "dev", "feat", "fix", "old"}

\* the names a request for full_name can come back under (a/y was renamed to a/x)
FullNames(full_name) == {full_name} \cup (IF full_name = A_Y THEN {A_X} ELSE {})

\* the API states main()'s calls of fetch_repo_data are checked on
RunRemotes(full_name) ==
    {[base |-> Response(404, <<>>), branches |-> Response(404, <<>>),
      commits |-> [b \in BranchNames |-> Response(404, <<>>)],
      pulls |-> Response(404, <<>>), issues |-> Response(404, <<>>),
      contributors |-> Response(404, <<>>)]}
    \cup
    {[base |-> Response(200, RepoInfo(fn, 1, None)),
      branches |-> Response(st, <<Branch("main", TRUE, [status |-> 200, date |-> 1]),
                                  Branch("dev", TRUE, [status |-> 200, date |-> 2])>>),
      commits |-> [b \in BranchNames |->
                      IF b = "main" THEN Response(st, <<COMMIT_A, COMMIT_B>>)
                      ELSE Response(st, <<COMMIT_B>>)],
      pulls |-> Response(st, <<[created_at |-> 0, state |-> "open"]>>),
      issues |-> Response(st, <<[created_at |-> 0, state |-> "open",
                                 pull_request |-> FALSE]>>),
      contributors |-> Response(st, <<"Alice", "Bob">>)] :
        fn \in FullNames(full_name), st \in {200, 500}}

NoRemote == [absent |-> TRUE]

----------------------------------------------------------------------------
(* scripts/fetch.py: a run of main()                                       *)

Init ==
    /\ config \in Configs
    /\ now = 10
    /\ pc = "enumerate"
    /\ orgs_todo = Get(config, "organizations", <<>>)
    /\ users_todo = Get(config, "users", <<>>)
    /\ all_repos = {}
    /\ queue = <<>>
    /\ results = <<>>
    /\ remote = NoRemote
    /\ net_requests = 0
    /\ enumerated = {}
    /\ processed = <<>>
    /\ failed = {}
    /\ raw_json = NoFile
    /\ returned = {}
    /\ files = {}
    /\ index_json = NoFile

\* "for org in config.get('organizations', [])": one organization
main_fetch_org ==
    /\ pc = "enumerate"
    /\ orgs_todo # <<>>
    /\ \E pages \in Listings(Head(orgs_todo)) : \E fail_at \in 0..(Len(pages) + 1) :
          LET r == fetch_org_repos(pages, fail_at)
          IN  /\ net_requests' = net_requests + r.requests
              /\ IF r.raised
                 THEN /\ pc' = "aborted"
                      /\ UNCHANGED <<orgs_todo, all_repos, enumerated>>
                 ELSE /\ pc' = pc
                      /\ orgs_todo' = Tail(orgs_todo)
                      /\ all_repos' = all_repos \cup r.repos
                      /\ enumerated' = enumerated \cup r.repos
    /\ UNCHANGED <<config, now, users_todo, queue, results, remote, processed, failed,
                   raw_json, returned, files, index_json>>

\* "for user in config.get('users', [])": one user
main_fetch_user ==
    /\ pc = "enumerate"
    /\ orgs_todo = <<>>
    /\ users_todo # <<>>
    /\ \E pages \in Listings(Head(users_todo)) : \E fail_at \in 0..(Len(pages) + 1) :
          LET r == fetch_user_repos(pages, fail_at)
          IN  /\ net_requests' = net_requests + r.requests
              /\ IF r.raised
                 THEN /\ pc' = "aborted"
                      /\ UNCHANGED <<users_todo, all_repos, enumerated>>
                 ELSE /\ pc' = pc
                      /\ users_todo' = Tail(users_todo)
                      /\ all_repos' = all_repos \cup r.repos
                      /\ enumerated' = enumerated \cup r.repos
    /\ UNCHANGED <<config, now, orgs_todo, queue, results, remote, processed, failed,
                   raw_json, returned, files, index_json>>

\* the whitelist is added, the blacklist applied and the result sorted
main_resolve ==
    /\ pc = "enumerate"
    /\ orgs_todo = <<>>
    /\ users_todo = <<>>
    /\ all_repos' = resolve(all_repos, config)
    /\ queue' = sorted(all_repos')
    /\ pc' = "fetch"
    /\ UNCHANGED <<config, now, orgs_todo, users_todo, results, remote, net_requests,
                   enumerated, processed, failed, raw_json, returned, files, index_json>>

\* "for repo_full_name in sorted(all_repos)": one repository
main_fetch_repo ==
    /\ pc = "fetch"
    /\ queue # <<>>
    /\ IF unpack_fails(Head(queue))
       THEN /\ pc' = "aborted"
            /\ UNCHANGED <<queue, results, remote, net_requests, processed, failed>>
       ELSE \E rm \in RunRemotes(Head(queue)) :
            \E branch_order \in branch_orders(rm, config) :
            \E author_order \in author_orders(rm, config, branch_order) :
               LET r == fetch_repo_data(rm, config, now, branch_order, author_order)
               IN  /\ pc' = pc
                   /\ queue' = Tail(queue)
                   /\ remote' = rm
                   /\ net_requests' = net_requests + r.requests
                   /\ processed' = Append(processed, Head(queue))
                   /\ IF r.raised
                      THEN /\ failed' = failed \cup {Head(queue)}
                           /\ UNCHANGED results
                      ELSE /\ results' = Append(results, r.data)
                           /\ UNCHANGED failed
    /\ UNCHANGED <<config, now, orgs_todo, users_todo, all_repos, enumerated, raw_json,
                   returned, files, index_json>>

\* raw.json is written
main_save ==
    /\ pc = "fetch"
    /\ queue = <<>>
    /\ raw_json' = snapshot(now, results)
    /\ pc' = "done"
    /\ UNCHANGED <<config, now, orgs_todo, users_todo, all_repos, queue, results, remote,
                   net_requests, enumerated, processed, failed, returned, files,
                   index_json>>

Next ==
    \/ main_fetch_org
    \/ main_fetch_user
    \/ main_resolve
    \/ main_fetch_repo
    \/ main_save

Spec == Init /\ [][Next]_vars
----------------------------------------------------------------------------
(* fetch_repo_data on its own: one call, on a wider range of API states    *)

\* longest commit list one branch returns
MaxCommits == 3

\* the commits of the repository in the activity window, newest first
COMMIT_E == [sha |-> "E", author |-> "Alice"]
History == <<COMMIT_A, COMMIT_B, COMMIT_C, COMMIT_D, COMMIT_E>>

\* the commit lists a branch can return: runs of History
CommitLists ==
    {<<>>} \cup {SubSeq(History, w[1], w[2]) :
                    w \in {x \in (1..Len(History)) \X (1..Len(History)) :
                              x[2] >= x[1] /\ x[2] - x[1] < MaxCommits}}

TipAt(date) == [status |-> 200, date |-> date]

\* eleven branches: the newest one lies beyond the first ten
ManyBranches ==
    <<Branch("main", TRUE, TipAt(9))>>
      \o [i \in 1..8 |-> Branch("old", FALSE, TipAt(9))]
      \o <<Branch("fix", TRUE, TipAt(1)), Branch("feat", TRUE, TipAt(5))>>

BranchLists ==
    {<<>>,
     <<Branch("main", TRUE, TipAt(9))>>,
     <<Branch("dev", TRUE, TipAt(1)), Branch("main", TRUE, TipAt(9))>>,
     <<Branch("main", TRUE, TipAt(9)), Branch("feat", TRUE, TipAt(5)),
       Branch("fix", TRUE, TipAt(7)), Branch("old", TRUE, TipAt(7))>>,
     <<Branch("main", TRUE, TipAt(9)), Branch("dev", TRUE, TipAt(1)),
       Branch("feat", TRUE, [status |-> 404]), Branch("fix", TRUE, [status |-> 200]),
       Branch("old", FALSE, TipAt(7))>>,
     ManyBranches}

PullLists ==
    {<<>>,
     <<[created_at |-> -5, state |-> "open"],
       [created_at |-> -4, state |-> "closed", merged_at |-> -4],
       [created_at |-> 9, state |-> "closed", merged_at |-> 9],
       [created_at |-> 9, state |-> "closed"]>>}

IssueLists ==
    {<<>>,
     <<[created_at |-> -5, state |-> "closed", closed_at |-> 9, pull_request |-> FALSE],
       [created_at |-> 8, state |-> "open", pull_request |-> FALSE],
       [created_at |-> 9, state |-> "open", pull_request |-> TRUE]>>}

Responses(bodies) == {Response(500, <<>>)} \cup {Response(200, b) : b \in bodies}

CollectRemotes ==
    {[base |-> Response(404, <<>>), branches |-> Response(404, <<>>),
      commits |-> [b \in BranchNames |-> Response(404, <<>>)],
      pulls |-> Response(404, <<>>), issues |-> Response(404, <<>>),
      contributors |-> Response(404, <<>>)]}
    \cup
    {[base |-> Response(200, RepoInfo(A_X, 1, "text")),
      branches |-> br,
      commits |-> [b \in BranchNames |->
                      IF b = "main" THEN cm ELSE IF b = "dev" THEN cd ELSE co],
      pulls |-> pl, issues |-> is, contributors |-> ct] :
        br \in Responses(BranchLists),
        cm \in Responses(CommitLists),
        cd \in Responses({<<>>, <<COMMIT_A>>, <<COMMIT_B, COMMIT_C, COMMIT_D>>}),
        co \in Responses({<<COMMIT_D, COMMIT_E>>}),
        pl \in Responses({CHOOSE l \in PullLists : l # <<>>}),
        is \in Responses({CHOOSE l \in IssueLists : l # <<>>}),
        ct \in Responses({<<"Alice", "Bob">>})}

CollectConfigs ==
    {[metrics |-> <<>>],
     [metrics |-> <<"commits">>],
     [metrics |-> <<"pull_requests", "issues", "contributors">>],
     [metrics |-> <<"commits", "pull_requests", "issues", "contributors">>],
     [metrics |-> <<"issues", "pull_requests">>, activity_window |-> 1],
     EmptyDict}

InitCollect ==
    /\ config \in CollectConfigs
    /\ remote \in CollectRemotes
    /\ now = 10
    /\ pc = "collect"
    /\ orgs_todo = <<>>
    /\ users_todo = <<>>
    /\ all_repos = {}
    /\ queue = <<>>
    /\ results = <<>>
    /\ net_requests = 0
    /\ enumerated = {}
    /\ processed = <<>>
    /\ failed = {}
    /\ raw_json = NoFile
    /\ returned = {}
    /\ files = {}
    /\ index_json = NoFile

\* one call of fetch_repo_data, as main() makes it
collect_repo ==
    /\ pc = "collect"
    /\ \E branch_order \in branch_orders(remote, config) :
       \E author_order \in author_orders(remote, config, branch_order) :
          LET r == fetch_repo_data(remote, config, now, branch_order, author_order)
          IN  /\ net_requests' = net_requests + r.requests
              /\ IF r.raised
                 THEN /\ pc' = "raised"
                      /\ UNCHANGED results
                 ELSE /\ pc' = "returned"
                      /\ results' = Append(results, r.data)
    /\ UNCHANGED <<config, now, orgs_todo, users_todo, all_repos, queue, remote,
                   enumerated, processed, failed, raw_json, returned, files, index_json>>

NextCollect == collect_repo

SpecCollect == InitCollect /\ [][NextCollect]_vars
----------------------------------------------------------------------------
(* Claims about fetch_repo_data                                            *)

\* the commit identifiers in the commit lists the scanned branches returned
returned_shas(rm) ==
    UNION {{c.sha : c \in Range(rm.commits[b].body)} :
            b \in {x \in branches_to_check(rm) : rm.commits[x].status = 200}}

\* C5: with the commits category enabled, commits_this_week of the returned
\* record is the number of distinct commit identifiers in the union of the
\* commit lists returned for the scanned branches.
C5_CommitsCountedOnce ==
    (pc = "returned" /\ metric_enabled(config, "commits"))
        => results[1].commits_this_week = Cardinality(returned_shas(remote))

\* C5 witness: main returned A,B,C and dev returned B,C,D, both were scanned,
\* and the record counts 4.
C5_Witness ==
    /\ pc = "returned"
    /\ metric_enabled(config, "commits")
    /\ {"main", "dev"} \subseteq branches_to_check(remote)
    /\ remote.commits["main"] = Response(200, <<COMMIT_A, COMMIT_B, COMMIT_C>>)
    /\ remote.commits["dev"] = Response(200, <<COMMIT_B, COMMIT_C, COMMIT_D>>)
    /\ results[1].commits_this_week = 4

CategoryFields(m) ==
    CASE m = "commits" -> {"commits_this_week", "commit_authors"}
      [] m = "pull_requests" -> {"prs_opened_this_week", "prs_merged_this_week", "prs_open"}
      [] m = "issues" -> {"issues_opened_this_week", "issues_closed_this_week",
                          "issues_open"}
      [] m = "contributors" -> {"total_contributors"}

\* the category's fetch came back with a non-success response (for commits:
\* every commit listing of a scanned branch did)
CategoryFailed(rm, m) ==
    CASE m = "commits" -> \A b \in branches_to_check(rm) : rm.commits[b].status # 200
      [] m = "pull_requests" -> rm.pulls.status # 200
      [] m = "issues" -> rm.issues.status # 200
      [] m = "contributors" -> rm.contributors.status # 200

\* C8: an enabled category whose fetch fails leaves none of its fields in the
\* record that fetch_repo_data returns; the record is still returned and holds
\* the fields of the enabled categories whose fetch succeeded.
C8_FailedCategoryOmitted ==
    (pc \in {"returned", "raised"} /\ remote.base.status = 200)
        => /\ pc = "returned"
           /\ \A m \in Range(Get(config, "metrics", <<>>)) :
                 IF CategoryFailed(remote, m)
                 THEN CategoryFields(m) \cap DOMAIN results[1] = {}
                 ELSE CategoryFields(m) \subseteq DOMAIN results[1]
----------------------------------------------------------------------------
(* scripts/aggregate.py                                                    *)

\* the per-repo summaries
repo_summaries_of(repos) ==
    [i \in 1..Len(repos) |->
        LET repo == repos[i]
        IN  [name |-> repo.name,
             url |-> repo.url,
             description |-> Get(repo, "description", None),
             activity |-> [commits |-> Get(repo, "commits_this_week", 0),
                           prs_opened |-> Get(repo, "prs_opened_this_week", 0),
                           prs_merged |-> Get(repo, "prs_merged_this_week", 0),
                           issues_opened |-> Get(repo, "issues_opened_this_week", 0),
                           issues_closed |-> Get(repo, "issues_closed_this_week", 0)],
             state |-> [stars |-> Get(repo, "stars", 0),
                        forks |-> Get(repo, "forks", 0),
                        open_issues |-> Get(repo, "issues_open", 0),
                        open_prs |-> Get(repo, "prs_open", 0),
                        contributors |-> Get(repo, "total_contributors", 0)],
             authors |-> Get(repo, "commit_authors", <<>>)]]

\* sum(r.get(k, 0) for r in repos)
sum_field(repos, k) == sum([i \in 1..Len(repos) |-> Get(repos[i], k, 0)])

\* totals with the authors of every repository added up, not united
totals_authors_summed(repos) ==
    [repositories |-> Len(repos),
     commits |-> sum_field(repos, "commits_this_week"),
     prs_opened |-> sum_field(repos, "prs_opened_this_week"),
     prs_merged |-> sum_field(repos, "prs_merged_this_week"),
     issues_opened |-> sum_field(repos, "issues_opened_this_week"),
     issues_closed |-> sum_field(repos, "issues_closed_this_week"),
     total_stars |-> sum_field(repos, "stars"),
     total_contributors |->
         sum([i \in 1..Len(repos) |-> Len(Get(repos[i], "commit_authors", <<>>))])]

\* the overall totals
totals_of(repos) ==
    [repositories |-> Len(repos),
     commits |-> sum_field(repos, "commits_this_week"),
     prs_opened |-> sum_field(repos, "prs_opened_this_week"),
     prs_merged |-> sum_field(repos, "prs_merged_this_week"),
     issues_opened |-> sum_field(repos, "issues_opened_this_week"),
     issues_closed |-> sum_field(repos, "issues_closed_this_week"),
     total_stars |-> sum_field(repos, "stars"),
     total_contributors |->
         Cardinality(UNION {Range(Get(repos[i], "commit_authors", <<>>)) :
                            i \in 1..Len(repos)})]

\* the names of the repositories with any activity
active_repos_of(repos) ==
    LET active == SelectSeq(repos,
                            LAMBDA r : \/ Get(r, "commits_this_week", 0) > 0
                                       \/ Get(r, "prs_opened_this_week", 0) > 0
                                       \/ Get(r, "issues_opened_this_week", 0) > 0)
    IN  [i \in 1..Len(active) |-> active[i].name]

\* aggregate(raw), called at time t
aggregate(raw, t) ==
    [date |-> strftime_date(t),
     fetched_at |-> raw.fetched_at,
     totals |-> totals_of(raw.repositories),
     active_repos |-> active_repos_of(raw.repositories),
     repositories |-> repo_summaries_of(raw.repositories)]

\* docs/data/<stem>.json
JsonFile(stem) == [stem |-> stem, suffix |-> "json"]
----------------------------------------------------------------------------
(* scripts/aggregate.py run on a snapshot, at any later time                *)

\* most stars of a repository
MaxStars == 1

\* most repositories in a snapshot
MaxRepos == 2

\* the last instant the clock reaches
MaxClock == 12

\* a record as fetch_repo_data returns it with every category disabled
BaseRecord(full_name, stars) ==
    [name |-> full_name, description |-> None, url |-> [html |-> full_name],
     homepage |-> None, stars |-> stars, forks |-> 0, open_issues |-> 0,
     default_branch |-> "main", updated_at |-> 0]

RawRecords ==
    {BaseRecord(A_X, st)
        @@ [commits_this_week |-> 3, commit_authors |-> <<"Alice", "Bob">>] :
            st \in 0..MaxStars}
    \cup {BaseRecord(B_Z, MaxStars)
            @@ [commits_this_week |-> 2, commit_authors |-> <<"Bob", "Carol">>,
                prs_opened_this_week |-> 2, prs_merged_this_week |-> 1, prs_open |-> 1,
                issues_opened_this_week |-> 1, issues_closed_this_week |-> 1,
                issues_open |-> 0, total_contributors |-> 2],
          BaseRecord(A_Y, 0),
          BaseRecord(A_Y, 0)
            @@ [commits_this_week |-> 0, commit_authors |-> <<>>,
                issues_opened_this_week |-> 1, issues_closed_this_week |-> 0,
                issues_open |-> 1],
          [name |-> A_Y, url |-> [html |-> A_Y]]}

\* the repositories lists of the snapshots
RawLists == UNION {[1..n -> RawRecords] : n \in 0..MaxRepos}

InitAggregate ==
    /\ now \in {9, 10}
    /\ \E repos \in RawLists : raw_json = snapshot(now, repos)
    /\ config = EmptyDict
    /\ pc = "idle"
    /\ orgs_todo = <<>>
    /\ users_todo = <<>>
    /\ all_repos = {}
    /\ queue = <<>>
    /\ results = <<>>
    /\ remote = NoRemote
    /\ net_requests = 0
    /\ enumerated = {}
    /\ processed = <<>>
    /\ failed = {}
    /\ returned = {}
    /\ files = {}
    /\ index_json = NoFile

\* aggregate.py's main(): raw.json is aggregated and the summary written to
\* docs/data/<date>.json
aggregate_main ==
    /\ raw_json # NoFile
    /\ LET summary == aggregate(raw_json, now)
       IN  /\ returned' = returned \cup {summary}
           /\ files' = files \cup {JsonFile(summary.date)}
    /\ pc' = "aggregated"
    /\ UNCHANGED <<config, now, orgs_todo, users_todo, all_repos, queue, results, remote,
                   net_requests, enumerated, processed, failed, raw_json, index_json>>

\* time passes
tick ==
    /\ now < MaxClock
    /\ now' = now + 1
    /\ UNCHANGED <<config, pc, orgs_todo, users_todo, all_repos, queue, results, remote,
                   net_requests, enumerated, processed, failed, raw_json, returned,
                   files, index_json>>

NextAggregate ==
    \/ aggregate_main
    \/ tick

SpecAggregate == InitAggregate /\ [][NextAggregate]_vars

----------------------------------------------------------------------------
(* scripts/update_index.py                                                 *)

INDEX == <<"i", "n", "d", "e", "x">>

\* the stems of the files the scan keeps
scanned_stems(dir) ==
    {f.stem : f \in {x \in dir : /\ x.suffix = "json"
                                 /\ x.stem # INDEX
                                 /\ isdigit(x.stem[1])}}

\* the index main() writes for the directory dir
build_index(dir) ==
    LET dates == sorted_reverse(scanned_stems(dir))
    IN  [dates |-> dates,
         latest |-> IF dates # <<>> THEN dates[1] ELSE JsonNull,
         count |-> Len(dates)]

\* files that can be put into docs/data, or taken out of it, besides the summaries
OtherFiles ==
    {JsonFile(DATE_0228), JsonFile(DATE_0301), JsonFile(<<"2", "0", "2", "4">>),
     JsonFile(<<"n", "o", "t", "e">>), [stem |-> DATE_0302, suffix |-> "txt"]}

InitIndex ==
    /\ now = 10
    /\ raw_json = snapshot(now, <<BaseRecord(A_X, MaxStars)>>)
    /\ files \in {{}, {JsonFile(DATE_0228), JsonFile(DATE_0301), JsonFile(DATE_0304)}}
    /\ index_json \in {NoFile, build_index({JsonFile(DATE_0305)})}
    /\ config = EmptyDict
    /\ pc = "idle"
    /\ orgs_todo = <<>>
    /\ users_todo = <<>>
    /\ all_repos = {}
    /\ queue = <<>>
    /\ results = <<>>
    /\ remote = NoRemote
    /\ net_requests = 0
    /\ enumerated = {}
    /\ processed = <<>>
    /\ failed = {}
    /\ returned = {}

\* update_index.py's main(): docs/data is scanned and index.json written
update_index_main ==
    /\ index_json' = build_index(files)
    /\ files' = files \cup {JsonFile(INDEX)}
    /\ pc' = "indexed"
    /\ UNCHANGED <<config, now, orgs_todo, users_todo, all_repos, queue, results, remote,
                   net_requests, enumerated, processed, failed, raw_json, returned>>

\* a file is put into docs/data out of band
put_file ==
    /\ \E f \in OtherFiles \ files : files' = files \cup {f}
    /\ pc' = "idle"
    /\ UNCHANGED <<config, now, orgs_todo, users_todo, all_repos, queue, results, remote,
                   net_requests, enumerated, processed, failed, raw_json, returned,
                   index_json>>

\* a file other than index.json is removed from docs/data out of band
delete_file ==
    /\ \E f \in files \ {JsonFile(INDEX)} : files' = files \ {f}
    /\ pc' = "idle"
    /\ UNCHANGED <<config, now, orgs_todo, users_todo, all_repos, queue, results, remote,
                   net_requests, enumerated, processed, failed, raw_json, returned,
                   index_json>>

NextIndex ==
    \/ update_index_main
    \/ aggregate_main
    \/ tick
    \/ put_file
    \/ delete_file

SpecIndex == InitIndex /\ [][NextIndex]_vars
----------------------------------------------------------------------------
(* Claims about a run of scripts/fetch.py                                  *)

\* main() has worked out the set of repositories it processes
Resolved == pc \in {"fetch", "done"}

Blacklisted(id) ==
    \E i \in 1..Len(Get(config, "blacklist", <<>>)) :
        fnmatch(id, Get(config, "blacklist", <<>>)[i])

\* the identifier does not hold exactly one "/"
Malformed(id) == Cardinality({i \in 1..Len(id) : id[i] = "/"}) # 1

\* C1: every whitelisted identifier is among the repositories the run
\* processes, whether or not it matches a blacklist pattern.
C1_WhitelistWins ==
    Resolved => Range(Get(config, "whitelist", <<>>)) \subseteq all_repos

\* C2: every identifier of the explicit repositories list, of an enumerated
\* organization or of an enumerated user that matches no blacklist pattern is
\* among the repositories the run processes.
C2_UnionOfSources ==
    Resolved =>
        \A id \in Range(Get(config, "repositories", <<>>)) \cup enumerated :
            ~Blacklisted(id) => id \in all_repos

\* C7: once the base-metadata fetch of a repository has failed with an HTTP
\* error, the run still goes through every later repository of the sorted
\* order and writes raw.json, which holds the records of the repositories that
\* were fetched, in processing order, and none for the failed ones.
C7_FailureSkipsOneRepository ==
    failed # {} =>
        /\ pc # "aborted"
        /\ pc = "done" =>
              /\ processed = sorted(all_repos)
              /\ raw_json # NoFile
              /\ raw_json.repositories = results
              /\ Len(results) = Len(processed) - Cardinality(failed)

\* C9: a run whose resolved set holds a malformed identifier has issued no
\* network request, writes no raw.json and does not complete.
C9_MalformedAbortsBeforeSideEffects ==
    (\E id \in all_repos : Malformed(id)) =>
        /\ net_requests = 0
        /\ raw_json = NoFile
        /\ pc # "done"

\* C11: no two records of the written snapshot have the same name.
C11_SnapshotNamesUnique ==
    raw_json # NoFile =>
        \A i \in 1..Len(raw_json.repositories) :
            \A j \in 1..Len(raw_json.repositories) :
                raw_json.repositories[i].name = raw_json.repositories[j].name => i = j

----------------------------------------------------------------------------
(* Claims about scripts/aggregate.py                                       *)

\* the UTC calendar date of an ISO-8601 "...Z" timestamp
utc_date(timestamp) == SubSeq(timestamp, 1, 10)

\* C3: the date of every summary aggregate returns is the UTC calendar date of
\* the snapshot's fetched_at, whenever aggregate runs, and the summary file is
\* named after it.
C3_DateIsFetchDate ==
    /\ \A summary \in returned : summary.date = utc_date(raw_json.fetched_at)
    /\ files \subseteq {JsonFile(utc_date(raw_json.fetched_at))}

\* C4: any two invocations of aggregate on the same snapshot, at any two
\* times, return the same summary.
C4_AggregateIdempotent ==
    \A s1 \in returned : \A s2 \in returned : s1 = s2

\* C6: in every summary aggregate returns, totals.repositories is the number
\* of repository summaries, every summed total is the sum of that field over
\* the repository summaries, and total_contributors is the size of the union
\* of their authors.
C6_TotalsMatchRepositories ==
    \A summary \in returned :
        LET rs == summary.repositories
            total(f(_)) == sum([i \in 1..Len(rs) |-> f(rs[i])])
        IN  /\ summary.totals.repositories = Len(rs)
            /\ summary.totals.commits = total(LAMBDA r : r.activity.commits)
            /\ summary.totals.prs_opened = total(LAMBDA r : r.activity.prs_opened)
            /\ summary.totals.prs_merged = total(LAMBDA r : r.activity.prs_merged)
            /\ summary.totals.issues_opened = total(LAMBDA r : r.activity.issues_opened)
            /\ summary.totals.issues_closed = total(LAMBDA r : r.activity.issues_closed)
            /\ summary.totals.total_stars = total(LAMBDA r : r.state.stars)
            /\ summary.totals.total_contributors =
                   Cardinality(UNION {Range(rs[i].authors) : i \in 1..Len(rs)})

\* C6 witness: a summary of two repositories with authors {Alice, Bob} and
\* {Bob, Carol}, 5 commits between them, and 3 contributors.
C6_Witness ==
    \E summary \in returned :
        /\ Len(summary.repositories) = 2
        /\ Range(summary.repositories[1].authors) = {"Alice", "Bob"}
        /\ Range(summary.repositories[2].authors) = {"Bob", "Carol"}
        /\ summary.totals.total_contributors = 3
        /\ summary.totals.commits = 5

----------------------------------------------------------------------------
(* Claims about scripts/update_index.py                                    *)

DigitValue(c) == Ord(c) - 48

\* the name is a calendar-date string YYYY-MM-DD
IsCalendarDate(stem) ==
    /\ Len(stem) = 10
    /\ \A i \in {1, 2, 3, 4, 6, 7, 9, 10} : isdigit(stem[i])
    /\ stem[5] = "-"
    /\ stem[8] = "-"
    /\ 10 * DigitValue(stem[6]) + DigitValue(stem[7]) \in 1..12
    /\ 10 * DigitValue(stem[9]) + DigitValue(stem[10]) \in 1..31

\* C10: right after a run of the index update, dates lists exactly the names
\* of the archive files named by a calendar date, in descending order, latest
\* is its first element (null when it is empty) and count is its length.
C10_IndexListsDateFiles ==
    pc = "indexed" =>
        LET dates == index_json.dates
            date_stems == {f.stem : f \in {x \in files : /\ x.suffix = "json"
                                                         /\ IsCalendarDate(x.stem)}}
        IN  /\ Range(dates) = date_stems
            /\ \A i \in 1..(Len(dates) - 1) : StrLess(dates[i + 1], dates[i])
            /\ index_json.latest = (IF dates = <<>> THEN JsonNull ELSE dates[1])
            /\ index_json.count = Len(dates)

====
